---- MODULE Spec2Model ----
(***************************************************************************)
(* Model of genny's auto_tasks.py (src/lamplib/src/genny/tasks):           *)
(* workload parsing (Workload.__init__, _validate_auto_run), task          *)
(* derivation (all_tasks, _dedup_task, snake_case_base_name,               *)
(* _to_snake_case), task selection (Repo.generate_dsi_tasks) and the run   *)
(* of main with ConfigWriter.write.                                        *)
(*                                                                         *)
(* Python strings are sequences of code points, so that regular            *)
(* expressions, str.split, str.replace and the ordering of str are         *)
(* computed character by character.  None is the sequence << -1 >>, which  *)
(* is no string.  A YAML value is a record carrying the outcome of the     *)
(* isinstance tests the code performs on it.                               *)
(***************************************************************************)
EXTENDS Integers, Sequences, FiniteSets, TLC

VARIABLES
    pc,             \* position of the run inside main
    tasks_filter,   \* main's argument tasks_filter
    variant,        \* main's local variant (None or a string)
    modified,       \* main's local modified
    files,          \* result of WorkloadLister.all_workload_files, in iteration order
    conts,          \* raw contents of the workload file read last (reader.load)
    workloads,      \* the Workload objects constructed so far (Repo.all_workloads)
    tasks,          \* result of Repo.tasks
    modified_files, \* result of get_modified_workload_files
    dsi_tasks,      \* result of Repo.generate_dsi_tasks
    output_file,    \* what the run did to the file build/DSITasks/DsiTasks-genny.yml
    output_text,    \* the documents that the run wrote to that file
    error           \* the exception that ended the run, or "none"

vars ==
    << pc, tasks_filter, variant, modified, files, conts, workloads, tasks,
       modified_files, dsi_tasks, output_file, output_text, error >>

-----------------------------------------------------------------------------
(* Bounds of the model *)

\* largest number of blocks in an AutoRun sequence
MaxBlocks ==
    2

\* largest number of lines printed by git diff
MaxLines ==
    2

-----------------------------------------------------------------------------
(* Strings *)

None ==
    << -1 >>

\* "mongodb_setup"
STR_AUTO_RUN_KEY ==
    << 109, 111, 110, 103, 111, 100, 98, 95, 115, 101, 116, 117, 112 >>

\* "$eq"
STR_EQ ==
    << 36, 101, 113 >>

\* "$neq"
STR_NEQ ==
    << 36, 110, 101, 113 >>

\* "test_control"
STR_TEST_CONTROL ==
    << 116, 101, 115, 116, 95, 99, 111, 110, 116, 114, 111, 108 >>

\* "auto_workload_path"
STR_AUTO_WORKLOAD_PATH ==
    << 97, 117, 116, 111, 95, 119, 111, 114, 107, 108, 111, 97, 100, 95, 112, 97, 116, 104 >>

\* "src/workloads/"
STR_SRC_WORKLOADS ==
    << 115, 114, 99, 47, 119, 111, 114, 107, 108, 111, 97, 100, 115, 47 >>

\* "./src/genny/"
STR_GENNY_PREFIX ==
    << 46, 47, 115, 114, 99, 47, 103, 101, 110, 110, 121, 47 >>

\* "."
STR_DOT ==
    << 46 >>

\* "_"
STR_UNDERSCORE ==
    << 95 >>

\* ""
STR_EMPTY ==
    <<  >>

\* ".yml"
STR_YML ==
    << 46, 121, 109, 108 >>

\* "/ws"
WORKSPACE_ROOT ==
    << 47, 119, 115 >>

\* "/ws/src/genny/src/workloads/scale/InsertRemove.yml"
PATH_INSERT_REMOVE ==
    << 47, 119, 115, 47, 115, 114, 99, 47, 103, 101, 110, 110, 121, 47, 115, 114, 99, 47, 119, 111, 114, 107, 108, 111, 97, 100, 115, 47, 115, 99, 97, 108, 101, 47, 73, 110, 115, 101, 114, 116, 82, 101, 109, 111, 118, 101, 46, 121, 109, 108 >>

\* "/ws/src/genny/src/workloads/scale/NestedDir/MyTest.yml"
PATH_MY_TEST ==
    << 47, 119, 115, 47, 115, 114, 99, 47, 103, 101, 110, 110, 121, 47, 115, 114, 99, 47, 119, 111, 114, 107, 108, 111, 97, 100, 115, 47, 115, 99, 97, 108, 101, 47, 78, 101, 115, 116, 101, 100, 68, 105, 114, 47, 77, 121, 84, 101, 115, 116, 46, 121, 109, 108 >>

\* "/ws/src/genny/src/workloads/Mixed-Ops2X.yml"
PATH_TOP ==
    << 47, 119, 115, 47, 115, 114, 99, 47, 103, 101, 110, 110, 121, 47, 115, 114, 99, 47, 119, 111, 114, 107, 108, 111, 97, 100, 115, 47, 77, 105, 120, 101, 100, 45, 79, 112, 115, 50, 88, 46, 121, 109, 108 >>

\* "src/workloads/scale/InsertRemove.yml"
LINE_INSERT_REMOVE ==
    << 115, 114, 99, 47, 119, 111, 114, 107, 108, 111, 97, 100, 115, 47, 115, 99, 97, 108, 101, 47, 73, 110, 115, 101, 114, 116, 82, 101, 109, 111, 118, 101, 46, 121, 109, 108 >>

\* "src/workloads/scale/NestedDir/MyTest.yml"
LINE_MY_TEST ==
    << 115, 114, 99, 47, 119, 111, 114, 107, 108, 111, 97, 100, 115, 47, 115, 99, 97, 108, 101, 47, 78, 101, 115, 116, 101, 100, 68, 105, 114, 47, 77, 121, 84, 101, 115, 116, 46, 121, 109, 108 >>

\* "src/workloads/README.md"
LINE_README ==
    << 115, 114, 99, 47, 119, 111, 114, 107, 108, 111, 97, 100, 115, 47, 82, 69, 65, 68, 77, 69, 46, 109, 100 >>

\* "standalone"
V_STANDALONE ==
    << 115, 116, 97, 110, 100, 97, 108, 111, 110, 101 >>

\* "replica"
V_REPLICA ==
    << 114, 101, 112, 108, 105, 99, 97 >>

\* "shard"
V_SHARD ==
    << 115, 104, 97, 114, 100 >>

\* "bootstrap_key"
K_BOOTSTRAP_KEY ==
    << 98, 111, 111, 116, 115, 116, 114, 97, 112, 95, 107, 101, 121 >>

\* "other_key"
K_OTHER_KEY ==
    << 111, 116, 104, 101, 114, 95, 107, 101, 121 >>

\* "branch_name"
K_BRANCH ==
    << 98, 114, 97, 110, 99, 104, 95, 110, 97, 109, 101 >>

\* "x"
K_X ==
    << 120 >>

\* "a"
VAL_a ==
    << 97 >>

\* "b"
VAL_b ==
    << 98 >>

\* "A"
VAL_A ==
    << 65 >>

\* "v4.4"
VAL_V44 ==
    << 118, 52, 46, 52 >>

\* "my_test_a"
NAME_MY_TEST_A ==
    << 109, 121, 95, 116, 101, 115, 116, 95, 97 >>

\* "my_test_b"
NAME_MY_TEST_B ==
    << 109, 121, 95, 116, 101, 115, 116, 95, 98 >>

\* "nested_dir_my_test_a"
NAME_NESTED_MY_TEST_A ==
    << 110, 101, 115, 116, 101, 100, 95, 100, 105, 114, 95, 109, 121, 95, 116, 101, 115, 116, 95, 97 >>

\* "nested_dir_my_test_b"
NAME_NESTED_MY_TEST_B ==
    << 110, 101, 115, 116, 101, 100, 95, 100, 105, 114, 95, 109, 121, 95, 116, 101, 115, 116, 95, 98 >>

\* "./src/genny/src/workloads/scale/InsertRemove.yml"
REL_INSERT_REMOVE ==
    << 46, 47, 115, 114, 99, 47, 103, 101, 110, 110, 121, 47, 115, 114, 99, 47, 119, 111, 114, 107, 108, 111, 97, 100, 115, 47, 115, 99, 97, 108, 101, 47, 73, 110, 115, 101, 114, 116, 82, 101, 109, 111, 118, 101, 46, 121, 109, 108 >>

\* "./src/genny/src/workloads/scale/NestedDir/MyTest.yml"
REL_MY_TEST ==
    << 46, 47, 115, 114, 99, 47, 103, 101, 110, 110, 121, 47, 115, 114, 99, 47, 119, 111, 114, 107, 108, 111, 97, 100, 115, 47, 115, 99, 97, 108, 101, 47, 78, 101, 115, 116, 101, 100, 68, 105, 114, 47, 77, 121, 84, 101, 115, 116, 46, 121, 109, 108 >>

-----------------------------------------------------------------------------
(* Python str operations *)

IsUpper(c) ==
    c >= 65 /\ c <= 90

IsLower(c) ==
    c >= 97 /\ c <= 122

IsDigit(c) ==
    c >= 48 /\ c <= 57

\* str.lower on ASCII text
Lower(s) ==
    [i \in 1..Len(s) |-> IF IsUpper(s[i]) THEN s[i] + 32 ELSE s[i]]

\* s.startswith(prefix, i - 1): prefix occurs in s at position i
OccursAt(s, sub, i) ==
    /\ i + Len(sub) - 1 <= Len(s)
    /\ \A k \in 1..Len(sub) : s[i + k - 1] = sub[k]

\* s.endswith(suffix)
EndsWith(s, suffix) ==
    /\ Len(suffix) <= Len(s)
    /\ OccursAt(s, suffix, Len(s) - Len(suffix) + 1)

\* position of the first occurrence of sub in s at or after i, 0 when there is none
RECURSIVE Find(_, _, _)
Find(s, sub, i) ==
    IF i + Len(sub) - 1 > Len(s) THEN 0
    ELSE IF OccursAt(s, sub, i) THEN i
    ELSE Find(s, sub, i + 1)

\* s.split(sep), sep not empty
RECURSIVE Split(_, _)
Split(s, sep) ==
    LET at == Find(s, sep, 1)
    IN  IF at = 0 THEN << s >>
        ELSE << SubSeq(s, 1, at - 1) >>
                 \o Split(SubSeq(s, at + Len(sep), Len(s)), sep)

\* s.replace(old, new), old not empty
RECURSIVE Replace(_, _, _)
Replace(s, old, new) ==
    LET at == Find(s, old, 1)
    IN  IF at = 0 THEN s
        ELSE SubSeq(s, 1, at - 1) \o new
                 \o Replace(SubSeq(s, at + Len(old), Len(s)), old, new)

\* sep.join(parts)
RECURSIVE Join(_, _)
Join(parts, sep) ==
    IF Len(parts) = 0 THEN << >>
    ELSE IF Len(parts) = 1 THEN parts[1]
    ELSE parts[1] \o sep \o Join(Tail(parts), sep)

\* position of the last occurrence of character c in s, 0 when there is none
LastIndexOf(s, c) ==
    IF \E i \in 1..Len(s) : s[i] = c
    THEN CHOOSE i \in 1..Len(s) : s[i] = c /\ \A j \in (i + 1)..Len(s) : s[j] # c
    ELSE 0

\* os.path.splitext(p)[0]: the extension starts at the last dot of the last
\* path component, unless only dots precede it there
SplitExtRoot(p) ==
    LET sepIndex == LastIndexOf(p, 47)
        dotIndex == LastIndexOf(p, 46)
    IN  IF /\ dotIndex > sepIndex
           /\ \E k \in (sepIndex + 1)..(dotIndex - 1) : p[k] # 46
        THEN SubSeq(p, 1, dotIndex - 1)
        ELSE p

\* a < b for two str that agree before position i: lexicographic on code points
RECURSIVE StrLessFrom(_, _, _)
StrLessFrom(a, b, i) ==
    IF i > Len(b) THEN FALSE
    ELSE IF i > Len(a) THEN TRUE
    ELSE IF a[i] # b[i] THEN a[i] < b[i]
    ELSE StrLessFrom(a, b, i + 1)

\* a < b for two str
StrLess(a, b) ==
    StrLessFrom(a, b, 1)

-----------------------------------------------------------------------------
(* Workload._to_snake_case *)

\* end of the greedy run [a-z]+ that starts at position i
RECURSIVE LowerRunEnd(_, _)
LowerRunEnd(s, i) ==
    IF i + 1 <= Len(s) /\ IsLower(s[i + 1]) THEN LowerRunEnd(s, i + 1) ELSE i

\* re.sub("(.)([A-Z][a-z]+)", r"\1_\2", s) from position i on
RECURSIVE SubWordBoundary(_, _)
SubWordBoundary(s, i) ==
    IF i > Len(s) THEN << >>
    ELSE IF /\ i + 2 <= Len(s)
            /\ s[i] # 10
            /\ IsUpper(s[i + 1])
            /\ IsLower(s[i + 2])
    THEN LET j == LowerRunEnd(s, i + 2)
         IN  << s[i], 95 >> \o SubSeq(s, i + 1, j) \o SubWordBoundary(s, j + 1)
    ELSE << s[i] >> \o SubWordBoundary(s, i + 1)

\* re.sub("-", "_", s)
SubDash(s) ==
    [i \in 1..Len(s) |-> IF s[i] = 45 THEN 95 ELSE s[i]]

\* re.sub("([a-z0-9])([A-Z])", r"\1_\2", s) from position i on
RECURSIVE SubLowerUpper(_, _)
SubLowerUpper(s, i) ==
    IF i > Len(s) THEN << >>
    ELSE IF /\ i + 1 <= Len(s)
            /\ (IsLower(s[i]) \/ IsDigit(s[i]))
            /\ IsUpper(s[i + 1])
    THEN << s[i], 95, s[i + 1] >> \o SubLowerUpper(s, i + 2)
    ELSE << s[i] >> \o SubLowerUpper(s, i + 1)

_to_snake_case(camel_case) ==
    LET s1 == SubWordBoundary(camel_case, 1)
        s2 == SubDash(s1)
    IN  Lower(SubLowerUpper(s2, 1))

-----------------------------------------------------------------------------
(* Deserialized YAML, as far as the code inspects it *)

\* one operator of a condition, "$eq": operand; a scalar operand is the one
\* element of operand and isList is FALSE
Operator(op, isList, operand) ==
    [op |-> op, isList |-> isList, operand |-> operand]

\* one item of a When mapping, key: condition
Condition(key, isDict, ops) ==
    [key |-> key, isDict |-> isDict, ops |-> ops]

\* one element of a ThenRun sequence; items are the (key, value) pairs of a mapping
ThenRunEntry(isDict, items) ==
    [isDict |-> isDict, items |-> items]

Item(key, value) ==
    [key |-> key, value |-> value]

\* one element of an AutoRun sequence
Block(isDict, hasWhen, whenIsDict, when, hasThenRun, thenRunIsList, then_run) ==
    [isDict |-> isDict, hasWhen |-> hasWhen, whenIsDict |-> whenIsDict,
     when |-> when, hasThenRun |-> hasThenRun, thenRunIsList |-> thenRunIsList,
     then_run |-> then_run]

\* the contents of a workload file
Contents(hasAutoRun, isList, auto_run) ==
    [hasAutoRun |-> hasAutoRun, isList |-> isList, auto_run |-> auto_run]

\* When: {mongodb_setup: {$eq: "standalone"}}
WhenStandalone ==
    << Condition(STR_AUTO_RUN_KEY, TRUE,
                 << Operator(STR_EQ, FALSE, << V_STANDALONE >>) >>) >>

\* When: {mongodb_setup: {$eq: ["standalone", "replica"]}}
WhenList ==
    << Condition(STR_AUTO_RUN_KEY, TRUE,
                 << Operator(STR_EQ, TRUE, << V_STANDALONE, V_REPLICA >>) >>) >>

\* When: {branch_name: {$eq: "v4.4"}, mongodb_setup: {$neq: "replica"}}
WhenBranch ==
    << Condition(K_BRANCH, TRUE, << Operator(STR_EQ, FALSE, << VAL_V44 >>) >>),
       Condition(STR_AUTO_RUN_KEY, TRUE,
                 << Operator(STR_NEQ, FALSE, << V_REPLICA >>) >>) >>

\* When: {mongodb_setup: {$neq: "replica", $eq: "shard"}}
WhenShard ==
    << Condition(STR_AUTO_RUN_KEY, TRUE,
                 << Operator(STR_NEQ, FALSE, << V_REPLICA >>),
                    Operator(STR_EQ, FALSE, << V_SHARD >>) >>) >>

\* When: {x: 1}
WhenScalar ==
    << Condition(K_X, FALSE, << >>) >>

\* ThenRun: [{bootstrap_key: "a"}, {bootstrap_key: "b"}]
ThenRunAB ==
    << ThenRunEntry(TRUE, << Item(K_BOOTSTRAP_KEY, VAL_a) >>),
       ThenRunEntry(TRUE, << Item(K_BOOTSTRAP_KEY, VAL_b) >>) >>

\* ThenRun: [{bootstrap_key: "A"}, {other_key: "a"}]
ThenRunSameName ==
    << ThenRunEntry(TRUE, << Item(K_BOOTSTRAP_KEY, VAL_A) >>),
       ThenRunEntry(TRUE, << Item(K_OTHER_KEY, VAL_a) >>) >>

\* ThenRun: [{test_control: "a"}, {"": "b"}, {auto_workload_path: "b"}]
ThenRunReservedKeys ==
    << ThenRunEntry(TRUE, << Item(STR_TEST_CONTROL, VAL_a) >>),
       ThenRunEntry(TRUE, << Item(STR_EMPTY, VAL_b) >>),
       ThenRunEntry(TRUE, << Item(STR_AUTO_WORKLOAD_PATH, VAL_b) >>) >>

\* ThenRun: [{a: "a", b: "b"}]
ThenRunTwoItems ==
    << ThenRunEntry(TRUE, << Item(VAL_a, VAL_a), Item(VAL_b, VAL_b) >>) >>

\* the blocks that _validate_auto_run accepts
WellFormedBlocks ==
    { Block(TRUE, TRUE, TRUE, WhenStandalone, FALSE, FALSE, << >>),
      Block(TRUE, TRUE, TRUE, WhenStandalone, TRUE, TRUE, ThenRunAB),
      Block(TRUE, TRUE, TRUE, WhenList, TRUE, TRUE, << >>),
      Block(TRUE, TRUE, TRUE, WhenBranch, TRUE, TRUE, ThenRunSameName),
      Block(TRUE, TRUE, TRUE, WhenShard, TRUE, TRUE, ThenRunReservedKeys),
      Block(TRUE, TRUE, TRUE, WhenScalar, FALSE, FALSE, << >>) }

\* the blocks that break a rule of the schema
MalformedBlocks ==
    { \* a block that is no mapping
      Block(FALSE, FALSE, FALSE, << >>, FALSE, FALSE, << >>),
      \* {ThenRun: [{a: "a", b: "b"}]}
      Block(TRUE, FALSE, FALSE, << >>, TRUE, TRUE, ThenRunTwoItems),
      \* {When: 5}
      Block(TRUE, TRUE, FALSE, << >>, FALSE, FALSE, << >>),
      \* {When: {...}, ThenRun: 5}
      Block(TRUE, TRUE, TRUE, WhenStandalone, TRUE, FALSE, << >>),
      \* {When: {...}, ThenRun: [5]}
      Block(TRUE, TRUE, TRUE, WhenStandalone, TRUE, TRUE,
            << ThenRunEntry(FALSE, << >>) >>),
      \* {When: {...}, ThenRun: [{}]}
      Block(TRUE, TRUE, TRUE, WhenStandalone, TRUE, TRUE,
            << ThenRunEntry(TRUE, << >>) >>),
      \* {When: {x: 1}, ThenRun: [{a: "a", b: "b"}]}
      Block(TRUE, TRUE, TRUE, WhenScalar, TRUE, TRUE, ThenRunTwoItems) }

Blocks ==
    WellFormedBlocks \cup MalformedBlocks

\* the sequences over S of length at most n
SeqUpTo(S, n) ==
    UNION { [1..k -> S] : k \in 0..n }

\* a file without AutoRun key
NoAutoRun ==
    Contents(FALSE, FALSE, << >>)

\* AutoRun: [{When: {x: 1}, ThenRun: [{a: "a", b: "b"}]}], Scenario D
ScenarioD ==
    Contents(TRUE, TRUE,
             << Block(TRUE, TRUE, TRUE, WhenScalar, TRUE, TRUE, ThenRunTwoItems) >>)

\* the contents that the file of the given path may have
FileContents(path) ==
    IF path = PATH_MY_TEST
    THEN { NoAutoRun, Contents(TRUE, FALSE, << >>) }
             \cup { Contents(TRUE, TRUE, a) : a \in SeqUpTo(Blocks, MaxBlocks) }
    ELSE { NoAutoRun,
           Contents(TRUE, TRUE, << >>),
           Contents(TRUE, TRUE,
                    << Block(TRUE, TRUE, TRUE, WhenList, TRUE, TRUE, ThenRunAB) >>),
           ScenarioD }

\* the results of glob, in the order in which all_workloads iterates over the set
FileListings ==
    { << PATH_MY_TEST, PATH_INSERT_REMOVE >>,
      << PATH_TOP, PATH_INSERT_REMOVE >>,
      << PATH_INSERT_REMOVE, PATH_TOP >> }

-----------------------------------------------------------------------------
(* class Workload *)

\* the first element of ThenRun that is no mapping of one item, if any
ThenRunError(then_run) ==
    IF \E i \in 1..Len(then_run) :
           ~then_run[i].isDict \/ Len(then_run[i].items) # 1
    THEN "ValueError"
    ELSE "none"

\* the exception that one pass of the loop of _validate_auto_run raises
BlockError(block) ==
    IF ~block.isDict THEN "TypeError"
    ELSE IF ~block.hasWhen THEN "KeyError"
    ELSE IF ~block.whenIsDict THEN "ValueError"
    ELSE IF block.hasThenRun
    THEN IF ~block.thenRunIsList THEN "ValueError"
         ELSE ThenRunError(block.then_run)
    ELSE "none"

_validate_auto_run(isList, auto_run) ==
    IF ~isList THEN "ValueError"
    ELSE IF \E i \in 1..Len(auto_run) : BlockError(auto_run[i]) # "none"
    THEN LET first == CHOOSE i \in 1..Len(auto_run) :
                          /\ BlockError(auto_run[i]) # "none"
                          /\ \A j \in 1..(i - 1) : BlockError(auto_run[j]) = "none"
         IN  BlockError(auto_run[first])
    ELSE "none"

AutoRunBlock(when, then_run) ==
    [when |-> when, then_run |-> then_run]

\* a Workload object; isNone says that auto_run_info is None
Workload(file_path, isNone, auto_run_info) ==
    [file_path |-> file_path, isNone |-> isNone, auto_run_info |-> auto_run_info]

\* Workload.__init__ after reader.load: the exception raised, or "none" and
\* the object constructed
WorkloadInit(file_path, contents) ==
    IF ~contents.hasAutoRun
    THEN [error |-> "none", workload |-> Workload(file_path, TRUE, << >>)]
    ELSE IF ~contents.isList
    THEN [error |-> "ValueError", workload |-> Workload(file_path, TRUE, << >>)]
    ELSE IF _validate_auto_run(contents.isList, contents.auto_run) # "none"
    THEN [error |-> _validate_auto_run(contents.isList, contents.auto_run),
          workload |-> Workload(file_path, TRUE, << >>)]
    ELSE [error |-> "none",
          workload |->
              Workload(file_path, FALSE,
                       [i \in 1..Len(contents.auto_run) |->
                           AutoRunBlock(contents.auto_run[i].when,
                                        IF contents.auto_run[i].hasThenRun
                                        THEN contents.auto_run[i].then_run
                                        ELSE << >>)])]

_get_relative_path_from_src_workloads(workload) ==
    Split(workload.file_path, STR_SRC_WORKLOADS)

\* snake_case_base_name with the directories dropped: the name of the file alone
snake_case_base_name_file_only(workload) ==
    LET relative_path ==
            Split(SplitExtRoot(_get_relative_path_from_src_workloads(workload)[2]),
                  << 47 >>)
    IN  _to_snake_case(relative_path[Len(relative_path)])

\* Workload.snake_case_base_name, for a path that holds "src/workloads/" once
snake_case_base_name(workload) ==
    LET relative_path ==
            Split(SplitExtRoot(_get_relative_path_from_src_workloads(workload)[2]),
                  << 47 >>)
    IN  IF Len(relative_path) = 1
        THEN _to_snake_case(relative_path[1])
        ELSE Join([i \in 1..(Len(relative_path) - 1) |->
                       _to_snake_case(relative_path[i + 1])],
                  STR_UNDERSCORE)

\* Workload.relative_path
relative_path(workload) ==
    Replace(workload.file_path, WORKSPACE_ROOT, STR_DOT)

GeneratedTask(name, bootstrap_key, bootstrap_value, workload) ==
    [name |-> name, bootstrap_key |-> bootstrap_key,
     bootstrap_value |-> bootstrap_value, workload |-> workload]

generate_requested_tasks(workload, then_run) ==
    LET base_name == snake_case_base_name(workload)
    IN  IF Len(then_run) = 0
        THEN << GeneratedTask(base_name, None, None, workload) >>
        ELSE [i \in 1..Len(then_run) |->
                 GeneratedTask(base_name \o STR_UNDERSCORE
                                   \o _to_snake_case(then_run[i].items[1].value),
                               then_run[i].items[1].key,
                               then_run[i].items[1].value,
                               workload)]

\* a < b for two values that are None or a str; Python raises TypeError
\* when exactly one of them is None
OptLess(a, b) ==
    a # None /\ b # None /\ StrLess(a, b)

\* a < b for two GeneratedTask, the comparison of tuples: decided by the
\* first field in which they differ
TaskLess(a, b) ==
    IF a.name # b.name THEN StrLess(a.name, b.name)
    ELSE IF a.bootstrap_key # b.bootstrap_key
    THEN OptLess(a.bootstrap_key, b.bootstrap_key)
    ELSE IF a.bootstrap_value # b.bootstrap_value
    THEN OptLess(a.bootstrap_value, b.bootstrap_value)
    ELSE FALSE

\* the comparison of a with b raises TypeError: the first field in which
\* they differ holds None on one side, or is the Workload, which has no order
TaskCompareRaises(a, b) ==
    IF a.name # b.name THEN FALSE
    ELSE IF a.bootstrap_key # b.bootstrap_key
    THEN a.bootstrap_key = None \/ b.bootstrap_key = None
    ELSE IF a.bootstrap_value # b.bootstrap_value
    THEN a.bootstrap_value = None \/ b.bootstrap_value = None
    ELSE a.workload # b.workload

\* sorted(S) for a set S of tasks that compare without raising
RECURSIVE Sorted(_)
Sorted(S) ==
    IF S = {} THEN << >>
    ELSE LET least == CHOOSE t \in S : \A u \in S \ {t} : TaskLess(t, u)
         IN  << least >> \o Sorted(S \ {least})

\* _dedup_task without set and sorted
_dedup_task_keeps_all(task_list) ==
    task_list

_dedup_task(task_list) ==
    Sorted({ task_list[i] : i \in 1..Len(task_list) })

\* the concatenation of the sequences of a sequence
RECURSIVE Concat(_)
Concat(seqs) ==
    IF Len(seqs) = 0 THEN << >> ELSE Head(seqs) \o Concat(Tail(seqs))

\* the tasks that all_tasks collects over the blocks, before _dedup_task
requested_tasks(workload) ==
    Concat([i \in 1..Len(workload.auto_run_info) |->
               generate_requested_tasks(workload, workload.auto_run_info[i].then_run)])

\* Workload.all_tasks
all_tasks(workload) ==
    IF workload.isNone \/ Len(workload.auto_run_info) = 0
    THEN << GeneratedTask(snake_case_base_name(workload), None, None, workload) >>
    ELSE _dedup_task(requested_tasks(workload))

\* sorted raises TypeError in _dedup_task: two of the tasks do not compare
all_tasks_raises(workload) ==
    /\ ~workload.isNone
    /\ Len(workload.auto_run_info) > 0
    /\ LET requested == requested_tasks(workload)
       IN  \E i, j \in 1..Len(requested) :
               /\ requested[i] # requested[j]
               /\ TaskCompareRaises(requested[i], requested[j])

-----------------------------------------------------------------------------
(* class Repo *)

\* Repo.tasks: the tasks of all workloads, in the order of all_workloads
RepoTasks(all_workloads) ==
    Concat([i \in 1..Len(all_workloads) |-> all_tasks(all_workloads[i])])

\* "$eq" in condition, for a condition that is a mapping
HasEq(condition) ==
    \E k \in 1..Len(condition.ops) : condition.ops[k].op = STR_EQ

\* condition["$eq"]
EqOperator(condition) ==
    condition.ops[CHOOSE k \in 1..Len(condition.ops) : condition.ops[k].op = STR_EQ]

\* what the loop over when.items() adds to variants
WhenVariants(when) ==
    Concat([k \in 1..Len(when) |->
               IF HasEq(when[k]) /\ when[k].key = STR_AUTO_RUN_KEY
               THEN EqOperator(when[k]).operand
               ELSE << >>])

\* variants built from the first block alone
VariantsFirstBlock(workload) ==
    IF Len(workload.auto_run_info) = 0 THEN << >>
    ELSE WhenVariants(workload.auto_run_info[1].when)

\* the list variants that generate_dsi_tasks builds for a task of the workload
Variants(workload) ==
    Concat([i \in 1..Len(workload.auto_run_info) |->
               WhenVariants(workload.auto_run_info[i].when)])

\* "$eq" in condition raises TypeError: the condition is a scalar
VariantsRaises(workload) ==
    \E i \in 1..Len(workload.auto_run_info) :
        \E k \in 1..Len(workload.auto_run_info[i].when) :
            ~workload.auto_run_info[i].when[k].isDict

\* d[key] = value on a dict, kept as the sequence of its items in insertion order
DictSet(d, key, value) ==
    IF \E i \in 1..Len(d) : d[i].key = key
    THEN [i \in 1..Len(d) |-> IF d[i].key = key THEN Item(key, value) ELSE d[i]]
    ELSE Append(d, Item(key, value))

\* d[key], for a key of d
DictGet(d, key) ==
    d[CHOOSE i \in 1..Len(d) : d[i].key = key].value

\* the dict bootstrap_vars of a task; a key that is None or "" is falsy
BootstrapVars(task) ==
    LET base == << Item(STR_TEST_CONTROL, task.name),
                   Item(STR_AUTO_WORKLOAD_PATH, relative_path(task.workload)) >>
    IN  IF task.bootstrap_key # None /\ task.bootstrap_key # STR_EMPTY
        THEN DictSet(base, task.bootstrap_key, task.bootstrap_value)
        ELSE base

\* valid_task with the variant compared to the first element of variants alone
ValidTaskFirstVariant(task, is_modified, the_variant, the_modified_files) ==
    LET variants == Variants(task.workload)
    IN  IF is_modified
           /\ DictGet(BootstrapVars(task), STR_AUTO_WORKLOAD_PATH) \in the_modified_files
        THEN TRUE
        ELSE IF the_variant # None /\ Len(variants) > 0 /\ variants[1] = the_variant
        THEN TRUE
        ELSE the_variant = None /\ is_modified = FALSE

\* valid_task of generate_dsi_tasks
ValidTask(task, is_modified, the_variant, the_modified_files) ==
    LET variants == Variants(task.workload)
    IN  IF is_modified
           /\ DictGet(BootstrapVars(task), STR_AUTO_WORKLOAD_PATH) \in the_modified_files
        THEN TRUE
        ELSE IF the_variant # None
                /\ \E i \in 1..Len(variants) : variants[i] = the_variant
        THEN TRUE
        ELSE the_variant = None /\ is_modified = FALSE

DsiTask(name, runs_on_variants, bootstrap_vars) ==
    [name |-> name, runs_on_variants |-> runs_on_variants,
     bootstrap_vars |-> bootstrap_vars]

\* the loop without its test of auto_run_info
SkippedTaskNever(task) ==
    FALSE

\* the pass of the loop of generate_dsi_tasks skips the task
SkippedTask(task) ==
    task.workload.isNone

\* what one pass of the loop of generate_dsi_tasks appends to dsi_tasks
DsiTasksOf(task, is_modified, the_variant, the_modified_files) ==
    IF SkippedTask(task) THEN << >>
    ELSE IF ValidTask(task, is_modified, the_variant, the_modified_files)
    THEN << DsiTask(task.name, Variants(task.workload), BootstrapVars(task)) >>
    ELSE << >>

\* the loop of generate_dsi_tasks raises TypeError
generate_dsi_tasks_raises(task_list) ==
    \E i \in 1..Len(task_list) :
        ~SkippedTask(task_list[i]) /\ VariantsRaises(task_list[i].workload)

\* the list that generate_dsi_tasks returns
generate_dsi_tasks(task_list, is_modified, the_variant, the_modified_files) ==
    Concat([i \in 1..Len(task_list) |->
               DsiTasksOf(task_list[i], is_modified, the_variant, the_modified_files)])

\* get_modified_workload_files: the paths built from the lines of git's output
ModifiedWorkloads(lines) ==
    { STR_GENNY_PREFIX \o lines[i] :
        i \in { k \in 1..Len(lines) : EndsWith(lines[k], STR_YML) } }

\* the lines that git diff may print
GitLines ==
    { LINE_INSERT_REMOVE, LINE_MY_TEST, LINE_README }

\* the values of build_variant in expansions.yml; None when the key is missing
BuildVariants ==
    { None, V_STANDALONE, V_REPLICA }

\* ConfigWriter._get_dsi_task_dict
_get_dsi_task_dict(tasks_to_write) ==
    [version |-> "v1.0", tasks |-> tasks_to_write]

-----------------------------------------------------------------------------
(* The run of main *)

TasksFilters ==
    { "all_tasks", "variant_tasks", "patch_tasks" }

Init ==
    /\ pc = "main"
    /\ tasks_filter \in TasksFilters
    /\ variant = None
    /\ modified = FALSE
    /\ files = << >>
    /\ conts = << >>
    /\ workloads = << >>
    /\ tasks = << >>
    /\ modified_files = {}
    /\ dsi_tasks = << >>
    /\ output_file = "untouched"
    /\ output_text = << >>
    /\ error = "none"

\* an exception leaves main
Raise(exception) ==
    /\ error' = exception
    /\ pc' = "failed"

\* main up to the call of generate_dsi_tasks; ExpansionsConfig raises
\* Exception when expansions.yml is missing and ValueError when its
\* execution is no integer
Main ==
    /\ pc = "main"
    /\ \/ /\ tasks_filter = "variant_tasks"
          /\ \E exception \in { "Exception", "ValueError" } : Raise(exception)
          /\ UNCHANGED << variant, modified >>
       \/ /\ tasks_filter = "variant_tasks"
          /\ \E build_variant \in BuildVariants : variant' = build_variant
          /\ pc' = "all_workload_files"
          /\ UNCHANGED << modified, error >>
       \/ /\ tasks_filter = "patch_tasks"
          /\ modified' = TRUE
          /\ pc' = "all_workload_files"
          /\ UNCHANGED << variant, error >>
       \/ /\ tasks_filter \notin { "variant_tasks", "patch_tasks" }
          /\ pc' = "all_workload_files"
          /\ UNCHANGED << variant, modified, error >>
    /\ UNCHANGED << tasks_filter, files, conts, workloads, tasks, modified_files,
                    dsi_tasks, output_file, output_text >>

\* WorkloadLister.all_workload_files, called by Repo.all_workloads
AllWorkloadFiles ==
    /\ pc = "all_workload_files"
    /\ \E listing \in FileListings : files' = listing
    /\ pc' = "workload"
    /\ UNCHANGED << tasks_filter, variant, modified, conts, workloads, tasks,
                    modified_files, dsi_tasks, output_file, output_text, error >>

\* Workload(...) for the next file of the listing: reader.load raises
\* Exception when the file is gone, else __init__ inspects the contents
NewWorkload ==
    /\ pc = "workload"
    /\ LET file_path == files[Len(workloads) + 1]
       IN  \/ /\ Raise("Exception")
              /\ UNCHANGED << conts, workloads >>
           \/ \E contents \in FileContents(file_path) :
                  /\ conts' = << contents >>
                  /\ IF WorkloadInit(file_path, contents).error # "none"
                     THEN /\ Raise(WorkloadInit(file_path, contents).error)
                          /\ UNCHANGED workloads
                     ELSE /\ workloads' =
                                 Append(workloads,
                                        WorkloadInit(file_path, contents).workload)
                          /\ pc' = IF Len(workloads) + 1 = Len(files)
                                   THEN "all_tasks" ELSE "workload"
                          /\ UNCHANGED error
    /\ UNCHANGED << tasks_filter, variant, modified, files, tasks, modified_files,
                    dsi_tasks, output_file, output_text >>

\* the calls of all_tasks in Repo.tasks
AllTasks ==
    /\ pc = "all_tasks"
    /\ IF \E i \in 1..Len(workloads) :
              Len(_get_relative_path_from_src_workloads(workloads[i])) # 2
       THEN /\ Raise("ValueError")
            /\ UNCHANGED tasks
       ELSE IF \E i \in 1..Len(workloads) : all_tasks_raises(workloads[i])
       THEN /\ Raise("TypeError")
            /\ UNCHANGED tasks
       ELSE /\ tasks' = RepoTasks(workloads)
            /\ pc' = IF modified THEN "modified_files" ELSE "dsi_tasks"
            /\ UNCHANGED error
    /\ UNCHANGED << tasks_filter, variant, modified, files, conts, workloads,
                    modified_files, dsi_tasks, output_file, output_text >>

\* get_modified_workload_files: subprocess.run raises CalledProcessError
\* when git fails
GetModifiedWorkloadFiles ==
    /\ pc = "modified_files"
    /\ \/ /\ Raise("CalledProcessError")
          /\ UNCHANGED modified_files
       \/ /\ \E lines \in SeqUpTo(GitLines, MaxLines) :
                 modified_files' = ModifiedWorkloads(lines)
          /\ pc' = "dsi_tasks"
          /\ UNCHANGED error
    /\ UNCHANGED << tasks_filter, variant, modified, files, conts, workloads, tasks,
                    dsi_tasks, output_file, output_text >>

\* generate_dsi_tasks that records the TypeError and returns the tasks of the
\* workloads before the one that raised
GenerateDsiTasksKeepsGoing ==
    /\ pc = "dsi_tasks"
    /\ IF generate_dsi_tasks_raises(tasks)
       THEN /\ error' = "TypeError"
            /\ dsi_tasks' = << >>
            /\ pc' = "write"
       ELSE /\ dsi_tasks' = generate_dsi_tasks(tasks, modified, variant, modified_files)
            /\ pc' = "write"
            /\ UNCHANGED error
    /\ UNCHANGED << tasks_filter, variant, modified, files, conts, workloads, tasks,
                    modified_files, output_file, output_text >>

\* the loop of generate_dsi_tasks and its return to main
GenerateDsiTasks ==
    /\ pc = "dsi_tasks"
    /\ IF generate_dsi_tasks_raises(tasks)
       THEN /\ Raise("TypeError")
            /\ UNCHANGED dsi_tasks
       ELSE /\ dsi_tasks' = generate_dsi_tasks(tasks, modified, variant, modified_files)
            /\ pc' = "write"
            /\ UNCHANGED error
    /\ UNCHANGED << tasks_filter, variant, modified, files, conts, workloads, tasks,
                    modified_files, output_file, output_text >>

\* ConfigWriter.write: os.makedirs, os.unlink of an existing file, open and
\* output.write; each of them may raise OSError, which write raises again
Write ==
    /\ pc = "write"
    /\ \/ \* os.makedirs or os.unlink raises, or open raises and no file existed
          /\ Raise("OSError")
          /\ UNCHANGED << output_file, output_text >>
       \/ \* the existing file is unlinked and open raises
          /\ Raise("OSError")
          /\ output_file' = "removed"
          /\ UNCHANGED output_text
       \/ \* the file is opened for writing and output.write raises
          /\ Raise("OSError")
          /\ output_file' = "truncated"
          /\ UNCHANGED output_text
       \/ /\ output_file' = "written"
          /\ output_text' = << _get_dsi_task_dict(dsi_tasks) >>
          /\ pc' = "done"
          /\ UNCHANGED error
    /\ UNCHANGED << tasks_filter, variant, modified, files, conts, workloads, tasks,
                    modified_files, dsi_tasks >>

Next ==
    \/ Main
    \/ AllWorkloadFiles
    \/ NewWorkload
    \/ AllTasks
    \/ GetModifiedWorkloadFiles
    \/ GenerateDsiTasks
    \/ Write

Spec ==
    Init /\ [][Next]_vars

-----------------------------------------------------------------------------
(* Properties *)

\* the names of a sequence of tasks
NamesOf(task_list) ==
    [i \in 1..Len(task_list) |-> task_list[i].name]

\* the elements of a sequence
Elements(s) ==
    { s[i] : i \in 1..Len(s) }

\* generate_dsi_tasks has returned dsi_tasks to main
Returned ==
    pc = "write"

\* the tasks of the list that belong to the workload
TasksOf(task_list, workload) ==
    LET Owned(t) == t.workload = workload
    IN  SelectSeq(task_list, Owned)

\* the workload has at least one conditional block
HasBlocks(workload) ==
    ~workload.isNone /\ Len(workload.auto_run_info) > 0

\* the tasks that the blocks of a workload ask for
ExpectedTasks(workload) ==
    LET base == snake_case_base_name(workload)
        blocks == workload.auto_run_info
    IN  { GeneratedTask(base, None, None, workload) :
            i \in { k \in 1..Len(blocks) : Len(blocks[k].then_run) = 0 } }
        \cup
        UNION { { GeneratedTask(base \o STR_UNDERSCORE
                                    \o _to_snake_case(blocks[i].then_run[k].items[1].value),
                                blocks[i].then_run[k].items[1].key,
                                blocks[i].then_run[k].items[1].value,
                                workload) :
                    k \in 1..Len(blocks[i].then_run) } :
                i \in 1..Len(blocks) }

\* a <= b in the order by (name, key, value)
TaskLeq(a, b) ==
    \/ StrLess(a.name, b.name)
    \/ /\ a.name = b.name
       /\ \/ OptLess(a.bootstrap_key, b.bootstrap_key)
          \/ /\ a.bootstrap_key = b.bootstrap_key
             /\ \/ OptLess(a.bootstrap_value, b.bootstrap_value)
                \/ a.bootstrap_value = b.bootstrap_value

\* C1: for every workload with conditional blocks, the tasks that all_tasks
\* returned hold no entry twice, ascend in the order by (name, key, value),
\* and are, as a set, the base task for each block with an empty ThenRun and
\* one task <base>_<snake case of value> for each ThenRun pair; two blocks
\* with an empty ThenRun give one task.
C1_AllTasksDedupSorted ==
    pc \in { "modified_files", "dsi_tasks" } =>
        \A w \in Elements(workloads) :
            HasBlocks(w) =>
                LET ts == TasksOf(tasks, w)
                IN  /\ \A i, j \in 1..Len(ts) : i < j => ts[i] # ts[j]
                    /\ \A i, j \in 1..Len(ts) : i < j => TaskLeq(ts[i], ts[j])
                    /\ Elements(ts) = ExpectedTasks(w)
                    /\ (\A k \in 1..Len(w.auto_run_info) :
                            Len(w.auto_run_info[k].then_run) = 0) => Len(ts) = 1

\* C1 witness: a workload of two blocks, both with an empty ThenRun, has one
\* task after all_tasks
C1_Witness ==
    /\ pc = "dsi_tasks"
    /\ \E w \in Elements(workloads) :
           /\ Len(w.auto_run_info) = 2
           /\ Len(w.auto_run_info[1].then_run) = 0
           /\ Len(w.auto_run_info[2].then_run) = 0
           /\ Len(TasksOf(tasks, w)) = 1

\* the workload of Scenario B
ScenarioB ==
    Workload(PATH_MY_TEST, FALSE, << AutoRunBlock(WhenStandalone, ThenRunAB) >>)

\* the emitted tasks of the given name
EmittedNamed(name) ==
    { i \in 1..Len(dsi_tasks) : dsi_tasks[i].name = name }

\* Scenario B with the two given names: the workload derives exactly the two
\* tasks; what is emitted of them carries the variants ["standalone"]; both
\* are emitted when all tasks or those of the variant standalone are asked for
ScenarioBHolds(first, second) ==
    /\ Returned /\ ScenarioB \in Elements(workloads) =>
           /\ NamesOf(TasksOf(tasks, ScenarioB)) = << first, second >>
           /\ \A i \in EmittedNamed(first) \cup EmittedNamed(second) :
                  dsi_tasks[i].runs_on_variants = << V_STANDALONE >>
           /\ ~modified /\ variant \in { None, V_STANDALONE } =>
                  EmittedNamed(first) # {} /\ EmittedNamed(second) # {}

\* C2 as stated: in Scenario B the derived tasks are exactly two, named
\* my_test_a and my_test_b, both emitted with the variant set {"standalone"}.
C2_ScenarioB_Original ==
    ScenarioBHolds(NAME_MY_TEST_A, NAME_MY_TEST_B)

\* C2 amended: in Scenario B the derived tasks are exactly two, named
\* nested_dir_my_test_a and nested_dir_my_test_b (only the first directory
\* below src/workloads/ is dropped), both emitted with the variant set
\* {"standalone"}.
C2_ScenarioB_Amended ==
    ScenarioBHolds(NAME_NESTED_MY_TEST_A, NAME_NESTED_MY_TEST_B)

\* C2 witness: generate_dsi_tasks has returned both tasks of Scenario B
C2_Witness ==
    /\ Returned
    /\ ScenarioB \in Elements(workloads)
    /\ tasks_filter = "all_tasks"
    /\ EmittedNamed(NAME_NESTED_MY_TEST_A) # {}
    /\ EmittedNamed(NAME_NESTED_MY_TEST_B) # {}

\* C3: with modified = False and variant = None the emitted tasks are the
\* tasks of the workloads that have at least one conditional block: the tasks
\* of a workload without AutoRun key or with an empty AutoRun sequence are
\* left out, all others are emitted.
C3_AllModeNeedsBlock ==
    Returned /\ ~modified /\ variant = None =>
        LET Selected(t) == HasBlocks(t.workload)
        IN  NamesOf(dsi_tasks) = NamesOf(SelectSeq(tasks, Selected))

\* C4 as stated: with modified = True the emitted tasks are the tasks whose
\* workload's relative path is in the set of modified files, with or without
\* AutoRun key.
C4_ByModified_Original ==
    Returned /\ modified =>
        LET Selected(t) == relative_path(t.workload) \in modified_files
        IN  NamesOf(dsi_tasks) = NamesOf(SelectSeq(tasks, Selected))

\* the path that generate_dsi_tasks looks up in the modified files: the value
\* under auto_workload_path in bootstrap_vars, which is the relative path of
\* the workload unless the bootstrap key of the task is auto_workload_path
LookedUpPath(t) ==
    IF t.bootstrap_key = STR_AUTO_WORKLOAD_PATH
    THEN t.bootstrap_value
    ELSE relative_path(t.workload)

\* C4 amended: with modified = True (and variant = None, as main calls it)
\* the emitted tasks are the tasks whose workload declares an AutoRun key
\* and whose auto_workload_path entry of bootstrapVars is in the set of
\* modified files; tasks of a workload without AutoRun key are never emitted.
C4_ByModified_Amended ==
    Returned /\ modified /\ variant = None =>
        LET Selected(t) ==
                ~t.workload.isNone /\ LookedUpPath(t) \in modified_files
        IN  NamesOf(dsi_tasks) = NamesOf(SelectSeq(tasks, Selected))

\* C4 witness: both files are modified, the one without AutoRun key is left
\* out and the tasks of the other are emitted
C4_Witness ==
    /\ Returned
    /\ modified
    /\ modified_files = { REL_INSERT_REMOVE, REL_MY_TEST }
    /\ \E w \in Elements(workloads) : w.isNone
    /\ Len(dsi_tasks) > 0
    /\ Len(dsi_tasks) < Len(tasks)

\* the variant set of a workload: the union over all its blocks of the $eq
\* operands of the conditions under mongodb_setup
VariantSet(workload) ==
    UNION { UNION { UNION { Elements(workload.auto_run_info[i].when[k].ops[m].operand) :
                            m \in { n \in 1..Len(workload.auto_run_info[i].when[k].ops) :
                                      workload.auto_run_info[i].when[k].ops[n].op = STR_EQ } } :
                    k \in { n \in 1..Len(workload.auto_run_info[i].when) :
                              workload.auto_run_info[i].when[n].key = STR_AUTO_RUN_KEY } } :
            i \in 1..Len(workload.auto_run_info) }

\* the operator with one more value in its operand
WithValue(operator, value) ==
    IF operator.op = STR_EQ
    THEN Operator(STR_EQ, TRUE, Append(operator.operand, value))
    ELSE operator

\* the workload with the variant added to the $eq operand of every condition
\* under mongodb_setup
AddVariant(workload, value) ==
    Workload(workload.file_path, workload.isNone,
             [i \in 1..Len(workload.auto_run_info) |->
                 AutoRunBlock(
                     [k \in 1..Len(workload.auto_run_info[i].when) |->
                         LET condition == workload.auto_run_info[i].when[k]
                         IN  IF condition.key = STR_AUTO_RUN_KEY
                             THEN Condition(condition.key, condition.isDict,
                                            [m \in 1..Len(condition.ops) |->
                                                WithValue(condition.ops[m], value)])
                             ELSE condition],
                     workload.auto_run_info[i].then_run)])

\* all tasks of the workload are emitted for the variant
SelectedFor(workload, the_variant) ==
    NamesOf(generate_dsi_tasks(all_tasks(workload), FALSE, the_variant, {}))
        = NamesOf(all_tasks(workload))

\* C5: with a variant v and modified = False the emitted tasks are the tasks
\* whose variant set holds v; a workload with v added to the $eq operand of
\* its mongodb_setup conditions is selected for v and for every variant it
\* was selected for before.
C5_ByVariant ==
    Returned /\ ~modified /\ variant # None =>
        /\ LET Selected(t) == variant \in VariantSet(t.workload)
           IN  NamesOf(dsi_tasks) = NamesOf(SelectSeq(tasks, Selected))
        /\ \A w \in Elements(workloads) :
               VariantSet(w) # {} =>
                   \A added \in { V_REPLICA, V_SHARD } :
                       /\ SelectedFor(AddVariant(w, added), added)
                       /\ SelectedFor(w, variant) =>
                              SelectedFor(AddVariant(w, added), variant)

\* C5 witness: for the variant replica some tasks are emitted and some are
\* not
C5_Witness ==
    /\ Returned
    /\ ~modified
    /\ variant = V_REPLICA
    /\ Len(dsi_tasks) > 0
    /\ Len(dsi_tasks) < Len(tasks)

\* C6: runs_on_variants of every emitted task is, as a set, the union over
\* all blocks of its workload of the $eq operands under mongodb_setup, and
\* the emitted tasks of one workload carry the same variants.
C6_VariantsOfWholeWorkload ==
    Returned =>
        \A i \in 1..Len(dsi_tasks) :
            /\ \E j \in 1..Len(tasks) : tasks[j].name = dsi_tasks[i].name
            /\ \A j \in 1..Len(tasks) :
                   tasks[j].name = dsi_tasks[i].name =>
                       /\ Elements(dsi_tasks[i].runs_on_variants)
                              = VariantSet(tasks[j].workload)
                       /\ \A k \in 1..Len(dsi_tasks) :
                              (\E l \in 1..Len(tasks) :
                                   /\ tasks[l].name = dsi_tasks[k].name
                                   /\ tasks[l].workload = tasks[j].workload)
                                  => dsi_tasks[k].runs_on_variants
                                         = dsi_tasks[i].runs_on_variants

\* C6 witness: a task asked for by a block under standalone is emitted with
\* the variants of both blocks of its workload
C6_Witness ==
    /\ Returned
    /\ \E i \in 1..Len(dsi_tasks) :
           /\ dsi_tasks[i].runs_on_variants = << V_STANDALONE, V_SHARD >>
           /\ dsi_tasks[i].name = NAME_NESTED_MY_TEST_B

\* d[key] = value holds in the dict
DictHas(d, key, value) ==
    \E i \in 1..Len(d) : d[i].key = key /\ d[i].value = value

\* C7: bootstrap_vars of every emitted task holds test_control: its name and
\* auto_workload_path: the relative path of its workload, and, when the task
\* carries a bootstrap key and value, that key with that value as a third
\* entry, whatever the key.
C7_BootstrapVars ==
    Returned =>
        \A i \in 1..Len(dsi_tasks) :
            \E j \in 1..Len(tasks) :
                /\ tasks[j].name = dsi_tasks[i].name
                /\ DictHas(dsi_tasks[i].bootstrap_vars, STR_TEST_CONTROL, tasks[j].name)
                /\ DictHas(dsi_tasks[i].bootstrap_vars, STR_AUTO_WORKLOAD_PATH,
                           relative_path(tasks[j].workload))
                /\ IF tasks[j].bootstrap_key # None
                   THEN /\ DictHas(dsi_tasks[i].bootstrap_vars,
                                   tasks[j].bootstrap_key, tasks[j].bootstrap_value)
                        /\ Len(dsi_tasks[i].bootstrap_vars) = 3
                   ELSE Len(dsi_tasks[i].bootstrap_vars) = 2

\* the ThenRun of the block is present and is no sequence of mappings of one
\* item each
MalformedThenRun(block) ==
    /\ block.isDict
    /\ block.hasThenRun
    /\ \/ ~block.thenRunIsList
       \/ \E k \in 1..Len(block.then_run) :
              ~block.then_run[k].isDict \/ Len(block.then_run[k].items) # 1

\* the contents read last hold an AutoRun sequence with a block as described
ReadBlockWith(Described(_)) ==
    /\ Len(conts) = 1
    /\ conts[1].hasAutoRun
    /\ conts[1].isList
    /\ \E i \in 1..Len(conts[1].auto_run) : Described(conts[1].auto_run[i])

\* C8: parsing a workload with a malformed ThenRun fails with ValueError,
\* and every ThenRun entry of every constructed Workload has one item.
C8_ThenRunSchemaError ==
    /\ ReadBlockWith(MalformedThenRun) => pc = "failed" /\ error = "ValueError"
    /\ \A w \in Elements(workloads) :
           \A i \in 1..Len(w.auto_run_info) :
               \A k \in 1..Len(w.auto_run_info[i].then_run) :
                   Len(w.auto_run_info[i].then_run[k].items) = 1

\* the block is no mapping, has no When, or its When is no mapping
MalformedWhen(block) ==
    ~block.isDict \/ ~block.hasWhen \/ ~block.whenIsDict

\* C9: parsing a workload with a block that is no mapping, has no When, or
\* has a When that is no mapping fails with ValueError and constructs no
\* Workload from the file.
C9_WhenSchemaError ==
    ReadBlockWith(MalformedWhen) =>
        /\ pc = "failed"
        /\ error = "ValueError"
        /\ Len(workloads) < Len(files)

\* the exceptions raised before ConfigWriter.write is called
EarlyErrors ==
    { "Exception", "ValueError", "KeyError", "TypeError", "CalledProcessError" }

\* C10: a run that fails while loading or validating a workload, reading the
\* expansions or looking up the modified files ends with that failure, takes
\* no further step and leaves the output file untouched; the output file is
\* touched only after every listed workload was parsed and the selection
\* returned; a run that ends without failure has written the manifest of
\* the selected tasks of all listed workloads.
C10_AllOrNothing ==
    /\ error \in EarlyErrors =>
           /\ pc = "failed"
           /\ output_file = "untouched"
           /\ output_text = << >>
    /\ pc = "failed" => ~ENABLED Next
    /\ output_file # "untouched" =>
           /\ pc \in { "done", "failed" }
           /\ error \in { "none", "OSError" }
           /\ Len(files) > 0
           /\ Len(workloads) = Len(files)
           /\ \A i \in 1..Len(files) : workloads[i].file_path = files[i]
    /\ pc = "done" =>
           /\ error = "none"
           /\ output_file = "written"
           /\ output_text = << _get_dsi_task_dict(dsi_tasks) >>
           /\ tasks = RepoTasks(workloads)
           /\ Len(workloads) = Len(files)

\* C10 witness: the second workload fails validation after the first was
\* parsed, and the output file is untouched
C10_Witness ==
    /\ pc = "failed"
    /\ error = "ValueError"
    /\ Len(workloads) = 1
    /\ Len(files) = 2
    /\ output_file = "untouched"

====
